---- MODULE Spec2Model ----
(***************************************************************************)
(* FundingTxFetcher (backend/src/tasks/lightning/sync-tasks/               *)
(* funding-tx-fetcher.ts): the Lightning funding-transaction resolver.     *)
(*                                                                         *)
(* The singleton's fields are the global variables.  Every async call in   *)
(* progress is a process whose pc names the `await` it is suspended at;    *)
(* one action is the synchronous stretch of code between two awaits, so    *)
(* the interleavings of the model are those of the event loop.             *)
(*                                                                         *)
(* The actions are put together in several specifications, each over the   *)
(* callers and the answers of the collaborators that its properties need:  *)
(*   Spec         two batch callers, the on-demand caller, the clock       *)
(*   SpecWarm     the same, from a block cache one entry below capacity    *)
(*   SpecResolve  one batch caller and the on-demand caller over every     *)
(*                channel id, transactions that do not decode included     *)
(*   SpecMonitor  the wallet monitor over more histories and listings      *)
(*   SpecStartup  $init with the cache file, next to one batch caller      *)
(*   SpecDisk     Spec with the writeFile calls settling                   *)
(***************************************************************************)
EXTENDS Integers, Sequences, FiniteSets, TLC

\* ------------------------------------------------------------ constants
BLOCKS_CACHE_MAX_SIZE == 100
MY_LIGHTNING_WALLET_ADDRESS == "bc1qpqlsehzrjmxhutxmlwt6tdjkwafvcgugpv5375"
\* for (let i = 0; i < 10; ++i) delete ...
EVICTION_BATCH == 10
\* if (elapsedSeconds > 60)
CACHE_FLUSH_SECONDS == 60

\* ------------------------------------------------------------ bounds
\* channel ids handed to $fetchChannelsFundingTxs, all calls together
MaxBatchLen == 2
\* resolution of the wall clock: clock ticks per second
TicksPerSecond == 2

\* ------------------------------------------------------------ callers
\* two callers of $fetchChannelsFundingTxs, one on-demand caller of the
\* public $fetchChannelOpenTx
Batches == {"b1", "b2"}
OnDemand == {"od"}
Procs == Batches \cup OnDemand
\* the caller of $init
Inits == {"init"}
\* the calls that run $monitorLightningWallet (lines 37 and 120)
Monitors == Batches \cup Inits
Calls == Procs \cup Inits

\* ------------------------------------------------------------ the chain
\* The short channel ids callers pass (already in HxTxO form).
ChannelIds == {"1x0x0", "1x0x1", "200x0x0"}
\* Channel ids whose funding transaction is the second of its block.
SecondTxChannelIds == {"1x1x0", "1x1x1", "200x1x0"}

\* channelId.split('x') with parseInt of the parts: <<height, txIdx, outputIdx>>
SplitChannelId(id) ==
  CASE id = "1x0x0" -> <<1, 0, 0>>
    [] id = "1x0x1" -> <<1, 0, 1>>
    [] id = "200x0x0" -> <<200, 0, 0>>
    [] id = "1x1x0" -> <<1, 1, 0>>
    [] id = "1x1x1" -> <<1, 1, 1>>
    [] id = "200x1x0" -> <<200, 1, 0>>

\* What getBlock(getBlockHash(h), 1) answers: the block at height h.
ChainBlock(h) ==
  [height |-> h, time |-> 1000 + h, tx |-> << <<h, 0>>, <<h, 1>> >>]

\* an output value that is undefined (tx.vout[outputIdx].value === undefined)
Undefined == -1
\* a decodeRawTransaction answer that is null
NoTx == [decoded |-> FALSE]

\* What decodeRawTransaction(getRawTransaction(txid)) answers: the vout list.
\* The first transaction of a block has a single output; the second one of
\* block 1 has two outputs, the latter without a value; the second one of
\* block 200 does not decode.
ChainTx(txid) ==
  IF txid[2] = 0 THEN [vout |-> << [value |-> 50 + txid[1] + txid[2]] >>]
  ELSE IF txid[1] = 200 THEN NoTx
  ELSE [vout |-> << [value |-> 50 + txid[1] + txid[2]], [value |-> Undefined] >>]

\* Results of $fetchChannelOpenTx
NoResult == [kind |-> "none"]
Null == [kind |-> "null"]

\* Mempool transactions getRawMempool(true) may list, decoded.
OtherAddress == "bc1qother"
MempoolDecoded(txid) ==
  IF txid = "m1"
  THEN [vout |-> << [value |-> 3, addresses |-> {MY_LIGHTNING_WALLET_ADDRESS}],
                    [value |-> 9, addresses |-> {OtherAddress}],
                    [value |-> 4, addresses |-> {MY_LIGHTNING_WALLET_ADDRESS}] >>]
  ELSE IF txid = "m3"
  THEN [vout |-> << [value |-> 5, addresses |-> {MY_LIGHTNING_WALLET_ADDRESS}] >>]
  ELSE [vout |-> << [value |-> 8, addresses |-> {OtherAddress}] >>]
MempoolDetails(txid) ==
  IF txid = "m1" THEN [fee |-> 1, vsize |-> 140]
  ELSE IF txid = "m3" THEN [fee |-> 3, vsize |-> 90]
  ELSE [fee |-> 2, vsize |-> 110]

\* The sequences over S of length at most n.
RECURSIVE SeqsUpTo(_, _)
SeqsUpTo(S, n) ==
  IF n = 0 THEN {<<>>}
  ELSE LET shorter == SeqsUpTo(S, n - 1)
       IN shorter \cup
          {Append(s, x) : s \in {t \in shorter : Len(t) = n - 1},
                          x \in S}

\* The channelIds arrays the upstream component hands over: height-ordered,
\* each id at most once.
Ascending(s) ==
  \A i, j \in 1..Len(s) :
    i < j => LET a == SplitChannelId(s[i])
                 b == SplitChannelId(s[j])
             IN \/ a[1] < b[1]
                \/ a[1] = b[1] /\ a[2] < b[2]
                \/ a[1] = b[1] /\ a[2] = b[2] /\ a[3] < b[3]
BatchInputs == {s \in SeqsUpTo(ChannelIds, MaxBatchLen) : Ascending(s)}
\* The same with the ids of second transactions among them.
AllChannelIds == ChannelIds \cup SecondTxChannelIds
AllBatchInputs == {s \in SeqsUpTo(AllChannelIds, MaxBatchLen) : Ascending(s)}
\* The listings getRawMempool(true) may answer, in listing order.
MempoolListings == {<<>>, <<"m2", "m1">>}
\* The histories getAddressTxs may answer.
AddressHistories == {<<"k1">>}
\* More of both: two transactions paying the wallet around one that does
\* not, a lone one, a longer history.
WalletListings == {<<>>, <<"m1">>, <<"m3", "m2", "m1">>}
WalletHistories == {<<"k1">>, <<"k2", "k1">>}

\* ------------------------------------------------------------ state
VARIABLES
  running,                \* private running
  blocksCache,            \* private blocksCache: height -> block
  channelNewlyProcessed,  \* private channelNewlyProcessed
  fundingTxCache,         \* public fundingTxCache: key -> record
  walletMempoolTxs,       \* public walletMempoolTxs
  now,                    \* new Date().getTime(), in ticks
  pc,                     \* per call: the await it is suspended at
  channelIds,             \* per batch: the argument
  channelProcessed,       \* per batch: let channelProcessed
  cacheTimer,             \* per batch: let cacheTimer, in ticks
  channelId,              \* per call of $fetchChannelOpenTx: the argument
  block,                  \* per call of $fetchChannelOpenTx: let block
  result,                 \* per call of $fetchChannelOpenTx: the value returned
  mon,                    \* per call of $monitorLightningWallet: its locals
  flushLog,               \* history: the writeFile calls issued, in order
  cacheFile,              \* the file CACHE_FILE_NAME
  writes,                 \* the writeFile calls not settled yet (indices of flushLog)
  puts,                   \* history: the insertions into fundingTxCache
  putsAtStart,            \* history, per batch: Len(puts) when it began
  cacheHits               \* history, per batch: items answered from the cache

vars == <<running, blocksCache, channelNewlyProcessed, fundingTxCache,
          walletMempoolTxs, now, pc, channelIds, channelProcessed, cacheTimer,
          channelId, block, result, mon, flushLog, cacheFile, writes, puts,
          putsAtStart, cacheHits>>

NoBlock == [height |-> 0, time |-> 0, tx |-> <<>>]
\* the locals of $monitorLightningWallet, kept until the code awaiting the
\* call goes on.  History: outcome, how the call ended; before, the snapshot
\* and the entry under the address key when the call was made
NoMon ==
  [confirmedTxs |-> <<>>, mempoolEntries |-> <<>>, i |-> 0, mempoolTxs |-> <<>>,
   outcome |-> "none", before |-> <<>>]
EmptyMap == [k \in {} |-> NoResult]
\* existsSync(CACHE_FILE_NAME) is false
NoFile == [kind |-> "absent"]
\* a file whose content JSON.parse rejects
CorruptFile == [kind |-> "corrupt"]

Init ==
  /\ running = FALSE
  /\ blocksCache = [h \in {} |-> NoBlock]
  /\ channelNewlyProcessed = 0
  /\ fundingTxCache = EmptyMap
  /\ walletMempoolTxs = <<>>
  /\ now = 0
  /\ pc = [p \in Calls |-> "idle"]
  /\ channelIds = [b \in Batches |-> <<>>]
  /\ channelProcessed = [b \in Batches |-> 0]
  /\ cacheTimer = [b \in Batches |-> 0]
  /\ channelId = [p \in Procs |-> ""]
  /\ block = [p \in Procs |-> NoBlock]
  /\ result = [p \in Procs |-> NoResult]
  /\ mon = [b \in Monitors |-> NoMon]
  /\ flushLog = <<>>
  /\ cacheFile = NoFile
  /\ writes = {}
  /\ puts = <<>>
  /\ putsAtStart = [b \in Batches |-> 0]
  /\ cacheHits = [b \in Batches |-> 0]

\* ------------------------------------------------------------ helpers
\* this.fundingTxCache[MY_LIGHTNING_WALLET_ADDRESS], as a list of at most one
ReservedEntry(fc) ==
  IF MY_LIGHTNING_WALLET_ADDRESS \in DOMAIN fc
  THEN <<fc[MY_LIGHTNING_WALLET_ADDRESS]>>
  ELSE <<>>

\* $monitorLightningWallet as called: nothing fetched yet
NewMon == [NoMon EXCEPT !.before = <<walletMempoolTxs, ReservedEntry(fundingTxCache)>>]

\* obj[k] = v on a plain object
PutKey(f, k, v) == [x \in DOMAIN f \cup {k} |-> IF x = k THEN v ELSE f[x]]

\* the cache never consulted
CacheHit_Never(fc, id) == FALSE

\* if (this.fundingTxCache[channelId]): every stored value is an object or an
\* array, hence truthy, so the test is the presence of the key
CacheHit(fc, id) == id \in DOMAIN fc

\* Math.floor in its place
MathFloor(ticks) == ticks \div TicksPerSecond

\* Math.round(x) of a non-negative x given in ticks: the nearest whole number
\* of seconds, halves rounded up
MathRound(ticks) == (2 * ticks + TicksPerSecond) \div (2 * TicksPerSecond)

\* keys.sort((a, b) => parseInt(b) - parseInt(a)): highest first.  The keys
\* above the midpoint of the range come first, each half sorted the same way.
RECURSIVE SortDescending(_)
SortDescending(S) ==
  IF S = {} THEN <<>>
  ELSE LET lowest == CHOOSE x \in S : \A y \in S : x <= y
           highest == CHOOSE x \in S : \A y \in S : y <= x
           middle == (lowest + highest) \div 2
       IN IF lowest = highest THEN <<lowest>>
          ELSE SortDescending({x \in S : x > middle}) \o
               SortDescending({x \in S : x <= middle})

\* Array.prototype.reverse
Reverse(s) == [i \in 1..Len(s) |-> s[Len(s) + 1 - i]]

\* the .reverse() left out
BlocksCacheHashes_NotReversed(bc) == SortDescending(DOMAIN bc)

\* const blocksCacheHashes = Object.keys(this.blocksCache).sort(...).reverse()
BlocksCacheHashes(bc) == Reverse(SortDescending(DOMAIN bc))

\* the bound off by one
OverCapacity_OffByOne(n) == n > BLOCKS_CACHE_MAX_SIZE + 1

\* if (blocksCacheHashes.length > BLOCKS_CACHE_MAX_SIZE)
OverCapacity(n) == n > BLOCKS_CACHE_MAX_SIZE

\* the keys deleted by  for (let i = 0; i < 10; ++i) delete blocksCache[hashes[i]]
EvictedKeys(bc) ==
  LET blocksCacheHashes == BlocksCacheHashes(bc)
  IN {blocksCacheHashes[i] : i \in 1..EVICTION_BATCH}

\* this.blocksCache[block.height] = block, then the eviction (lines 142-149).
\* blocksCacheHashes.length is the number of keys, taken here from the key set
\* so that the sort is only evaluated when entries are deleted.
PutBlock(bc, blk) ==
  LET stored == PutKey(bc, blk.height, blk)
  IN IF OverCapacity(Cardinality(DOMAIN stored))
     THEN [h \in DOMAIN stored \ EvictedKeys(stored) |-> stored[h]]
     ELSE stored

\* the test of line 155 without its last disjunct
OutputMissing_IgnoresValue(tx, outputIdx) ==
  \/ tx = NoTx
  \/ "vout" \notin DOMAIN tx
  \/ Len(tx.vout) < outputIdx + 1

\* the test of line 155: !tx || !tx.vout ||
\* tx.vout.length < parseInt(outputIdx, 10) + 1 ||
\* tx.vout[outputIdx].value === undefined
OutputMissing(tx, outputIdx) ==
  \/ tx = NoTx
  \/ "vout" \notin DOMAIN tx
  \/ Len(tx.vout) < outputIdx + 1
  \/ tx.vout[outputIdx + 1].value = Undefined

\* the record with the block's height for its time
FundingTxRecord_BlockHeight(blk, txid, tx, outputIdx) ==
  [timestamp |-> blk.height, txid |-> txid, value |-> tx.vout[outputIdx + 1].value]

\* lines 160-164: { timestamp: block.time, txid: txid, value: tx.vout[outputIdx].value }
FundingTxRecord(blk, txid, tx, outputIdx) ==
  [timestamp |-> blk.time, txid |-> txid, value |-> tx.vout[outputIdx + 1].value]

\* fsPromises.writeFile(CACHE_FILE_NAME, JSON.stringify(this.fundingTxCache)),
\* not awaited: the content is serialised when the call is issued
Flush(log, b, kind, fc) == Append(log, [by |-> b, kind |-> kind, content |-> fc])

\* if (elapsedSeconds > 60), elapsedSeconds = Math.round(now - cacheTimer)
CheckpointDue(elapsedTicks) == MathRound(elapsedTicks) > CACHE_FLUSH_SECONDS

\* the final flush made unconditional
FinalFlushDue_Always(newly) == TRUE

\* if (this.channelNewlyProcessed > 0)
FinalFlushDue(newly) == newly > 0

\* the block cache never consulted
BlockCached_Never(bc, blockHeight) == FALSE

\* let block = this.blocksCache[blockHeight]; if (!block)
BlockCached(bc, blockHeight) == blockHeight \in DOMAIN bc

\* where a call of $fetchChannelOpenTx hands its result: a batch awaits it at
\* line 91, the on-demand caller is outside this file
ReturnPc(p) == IF p \in Batches THEN "resolved" ELSE "returned"

ResolveAwaits == {"getBlockHash", "getBlock", "getRawTransaction", "decodeRawTransaction"}
MonitorAwaits == {"getAddressTxs", "getRawMempool", "mGetRawTransaction", "mDecodeRawTransaction"}

\* ------------------------------------------------------------ $fetchChannelOpenTx
\* Lines 126-140 (and 142-152 when the block is cached): from the call to the
\* first await.
EnterResolve(p, id) ==
  LET blockHeight == SplitChannelId(id)[1]
  IN /\ channelId' = [channelId EXCEPT ![p] = id]
     /\ IF CacheHit(fundingTxCache, id)
        THEN /\ pc' = [pc EXCEPT ![p] = ReturnPc(p)]
             /\ result' = [result EXCEPT ![p] = fundingTxCache[id]]
             /\ cacheHits' = [b \in Batches |-> IF b = p THEN cacheHits[b] + 1 ELSE cacheHits[b]]
             /\ UNCHANGED <<block, blocksCache>>
        ELSE IF BlockCached(blocksCache, blockHeight)
        THEN /\ block' = [block EXCEPT ![p] = blocksCache[blockHeight]]
             /\ blocksCache' = PutBlock(blocksCache, blocksCache[blockHeight])
             /\ pc' = [pc EXCEPT ![p] = "getRawTransaction"]
             /\ result' = [result EXCEPT ![p] = NoResult]
             /\ UNCHANGED cacheHits
        ELSE /\ pc' = [pc EXCEPT ![p] = "getBlockHash"]
             /\ result' = [result EXCEPT ![p] = NoResult]
             /\ UNCHANGED <<block, blocksCache, cacheHits>>

\* The public entry point called on demand (line 125).
FetchChannelOpenTx(p, id) ==
  /\ p \in OnDemand
  /\ pc[p] = "idle"
  /\ EnterResolve(p, id)
  /\ UNCHANGED <<running, channelNewlyProcessed, fundingTxCache, walletMempoolTxs,
                 now, channelIds, channelProcessed, cacheTimer, mon, flushLog, cacheFile, writes,
                 puts, putsAtStart>>

\* getBlockHash answered (line 139): getBlock is called.
GetBlockHashReturns(p) ==
  /\ pc[p] = "getBlockHash"
  /\ pc' = [pc EXCEPT ![p] = "getBlock"]
  /\ UNCHANGED <<running, blocksCache, channelNewlyProcessed, fundingTxCache,
                 walletMempoolTxs, now, channelIds, channelProcessed, cacheTimer,
                 channelId, block, result, mon, flushLog, cacheFile, writes, puts, putsAtStart, cacheHits>>

\* getBlock answered (lines 140-152): the block is stored, the cache trimmed,
\* getRawTransaction called.
GetBlockReturns(p) ==
  /\ pc[p] = "getBlock"
  /\ LET fetched == ChainBlock(SplitChannelId(channelId[p])[1])
     IN /\ block' = [block EXCEPT ![p] = fetched]
        /\ blocksCache' = PutBlock(blocksCache, fetched)
  /\ pc' = [pc EXCEPT ![p] = "getRawTransaction"]
  /\ UNCHANGED <<running, channelNewlyProcessed, fundingTxCache, walletMempoolTxs,
                 now, channelIds, channelProcessed, cacheTimer, channelId, result,
                 mon, flushLog, cacheFile, writes, puts, putsAtStart, cacheHits>>

\* getRawTransaction answered (line 152): decodeRawTransaction is called.
GetRawTransactionReturns(p) ==
  /\ pc[p] = "getRawTransaction"
  /\ pc' = [pc EXCEPT ![p] = "decodeRawTransaction"]
  /\ UNCHANGED <<running, blocksCache, channelNewlyProcessed, fundingTxCache,
                 walletMempoolTxs, now, channelIds, channelProcessed, cacheTimer,
                 channelId, block, result, mon, flushLog, cacheFile, writes, puts, putsAtStart, cacheHits>>

\* decodeRawTransaction answered (lines 153-168).
DecodeRawTransactionReturns(p) ==
  /\ pc[p] = "decodeRawTransaction"
  /\ LET parts == SplitChannelId(channelId[p])
         txid == block[p].tx[parts[2] + 1]
         outputIdx == parts[3]
         tx == ChainTx(txid)
     IN   IF OutputMissing(tx, outputIdx)
          THEN /\ result' = [result EXCEPT ![p] = Null]
               /\ UNCHANGED <<fundingTxCache, channelNewlyProcessed, puts>>
          ELSE LET record == FundingTxRecord(block[p], txid, tx, outputIdx)
               IN /\ fundingTxCache' = PutKey(fundingTxCache, channelId[p], record)
                  /\ channelNewlyProcessed' = channelNewlyProcessed + 1
                  /\ puts' = Append(puts, [id |-> channelId[p], by |-> p])
                  /\ result' = [result EXCEPT ![p] = record]
  /\ pc' = [pc EXCEPT ![p] = ReturnPc(p)]
  /\ block' = [block EXCEPT ![p] = NoBlock]
  /\ UNCHANGED <<running, blocksCache, walletMempoolTxs, now, channelIds,
                 channelProcessed, cacheTimer, channelId, mon, flushLog, cacheFile, writes,
                 putsAtStart, cacheHits>>

\* An RPC call of $fetchChannelOpenTx fails: nothing in lines 125-169 nor at
\* line 91 catches, so the call and the batch awaiting it are rejected.
ResolveRpcThrows(p) ==
  /\ pc[p] \in ResolveAwaits
  /\ pc' = [pc EXCEPT ![p] = "thrown"]
  /\ block' = [block EXCEPT ![p] = NoBlock]
  /\ UNCHANGED <<running, blocksCache, channelNewlyProcessed, fundingTxCache,
                 walletMempoolTxs, now, channelIds, channelProcessed, cacheTimer,
                 channelId, result, mon, flushLog, cacheFile, writes, puts, putsAtStart, cacheHits>>

\* ------------------------------------------------------------ $monitorLightningWallet
\* every transaction taken to pay the wallet
SendsToMe_Always(decoded) == TRUE

\* decoded.vout.some(out => out.scriptPubKey.addresses &&
\*                          out.scriptPubKey.addresses.includes(ADDRESS))
SendsToMe(decoded) ==
  \E k \in 1..Len(decoded.vout) :
    MY_LIGHTNING_WALLET_ADDRESS \in decoded.vout[k].addresses

\* decoded.vout.reduce((sum, out) => addresses?.includes(ADDRESS) ? sum + out.value : sum, 0)
RECURSIVE AmountToMe(_, _)
AmountToMe(vout, n) ==
  IF n = 0 THEN 0
  ELSE AmountToMe(vout, n - 1) +
       (IF MY_LIGHTNING_WALLET_ADDRESS \in vout[n].addresses THEN vout[n].value ELSE 0)

\* Lines 61-71: the snapshot is replaced and the confirmed history stored under
\* the address key; the call returns to the code awaiting it.
FinishMonitor(p, mempoolTxs, confirmedTxs) ==
  /\ mon' = [mon EXCEPT ![p].mempoolTxs = mempoolTxs, ![p].i = 0,
                         ![p].outcome = "done"]
  /\ walletMempoolTxs' = mempoolTxs
  /\ fundingTxCache' = PutKey(fundingTxCache, MY_LIGHTNING_WALLET_ADDRESS, confirmedTxs)
  /\ pc' = [pc EXCEPT ![p] = "monitored"]

\* getAddressTxs answered with confirmedTxs (line 43): getRawMempool is called.
GetAddressTxsAnswers(p, confirmedTxs) ==
  /\ pc[p] = "getAddressTxs"
  /\ mon' = [mon EXCEPT ![p].confirmedTxs = confirmedTxs]
  /\ pc' = [pc EXCEPT ![p] = "getRawMempool"]
  /\ UNCHANGED <<running, blocksCache, channelNewlyProcessed, fundingTxCache,
                 walletMempoolTxs, now, channelIds, channelProcessed, cacheTimer,
                 channelId, block, result, flushLog, cacheFile, writes, puts, putsAtStart, cacheHits>>

\* getRawMempool answered with the listing mempoolEntries (lines 46-49, or
\* 61-71 when the mempool is empty).
GetRawMempoolAnswers(p, mempoolEntries) ==
  /\ pc[p] = "getRawMempool"
  /\ IF mempoolEntries = <<>>
     THEN FinishMonitor(p, <<>>, mon[p].confirmedTxs)
     ELSE /\ mon' = [mon EXCEPT ![p].mempoolEntries = mempoolEntries,
                                ![p].mempoolTxs = <<>>, ![p].i = 1]
          /\ pc' = [pc EXCEPT ![p] = "mGetRawTransaction"]
          /\ UNCHANGED <<walletMempoolTxs, fundingTxCache>>
  /\ UNCHANGED <<running, blocksCache, channelNewlyProcessed, now, channelIds,
                 channelProcessed, cacheTimer, channelId, block, result, flushLog, cacheFile, writes,
                 puts, putsAtStart, cacheHits>>

GetAddressTxsReturns(p) ==
  \E confirmedTxs \in AddressHistories : GetAddressTxsAnswers(p, confirmedTxs)

GetRawMempoolReturns(p) ==
  \E mempoolEntries \in MempoolListings : GetRawMempoolAnswers(p, mempoolEntries)

\* getRawTransaction(txid, true) answered (line 49): decodeRawTransaction is called.
MonitorGetRawTransactionReturns(p) ==
  /\ pc[p] = "mGetRawTransaction"
  /\ pc' = [pc EXCEPT ![p] = "mDecodeRawTransaction"]
  /\ UNCHANGED <<running, blocksCache, channelNewlyProcessed, fundingTxCache,
                 walletMempoolTxs, now, channelIds, channelProcessed, cacheTimer,
                 channelId, block, result, mon, flushLog, cacheFile, writes, puts, putsAtStart, cacheHits>>

\* decodeRawTransaction answered (lines 50-59, then the next entry or 61-71).
MonitorDecodeReturns(p) ==
  /\ pc[p] = "mDecodeRawTransaction"
  /\ LET m == mon[p]
         txid == m.mempoolEntries[m.i]
         decoded == MempoolDecoded(txid)
         details == MempoolDetails(txid)
         mempoolTxs ==
           IF SendsToMe(decoded)
           THEN Append(m.mempoolTxs,
                       [txid |-> txid,
                        amount |-> AmountToMe(decoded.vout, Len(decoded.vout)),
                        fee |-> details.fee, vsize |-> details.vsize])
           ELSE m.mempoolTxs
     IN IF m.i < Len(m.mempoolEntries)
        THEN /\ mon' = [mon EXCEPT ![p].mempoolTxs = mempoolTxs, ![p].i = m.i + 1]
             /\ pc' = [pc EXCEPT ![p] = "mGetRawTransaction"]
             /\ UNCHANGED <<walletMempoolTxs, fundingTxCache>>
        ELSE FinishMonitor(p, mempoolTxs, m.confirmedTxs)
  /\ UNCHANGED <<running, blocksCache, channelNewlyProcessed, now, channelIds,
                 channelProcessed, cacheTimer, channelId, block, result, flushLog, cacheFile, writes,
                 puts, putsAtStart, cacheHits>>

\* the catch assigning the list built so far
MonitorRpcThrows_KeepsPartial(p) ==
  /\ pc[p] \in MonitorAwaits
  /\ pc' = [pc EXCEPT ![p] = "monitored"]
  /\ walletMempoolTxs' = mon[p].mempoolTxs
  /\ mon' = [mon EXCEPT ![p] = [NoMon EXCEPT !.outcome = "failed",
                                             !.before = mon[p].before]]
  /\ UNCHANGED <<running, blocksCache, channelNewlyProcessed, fundingTxCache,
                 now, channelIds, channelProcessed, cacheTimer, channelId, block,
                 result, flushLog, cacheFile, writes, puts, putsAtStart, cacheHits>>

\* An RPC call of the refresh fails: the catch of lines 73-75 logs and the
\* call returns with nothing assigned.
MonitorRpcThrows(p) ==
  /\ pc[p] \in MonitorAwaits
  /\ pc' = [pc EXCEPT ![p] = "monitored"]
  /\ mon' = [mon EXCEPT ![p] = [NoMon EXCEPT !.outcome = "failed",
                                             !.before = mon[p].before]]
  /\ UNCHANGED <<running, blocksCache, channelNewlyProcessed, fundingTxCache,
                 walletMempoolTxs, now, channelIds, channelProcessed, cacheTimer,
                 channelId, block, result, flushLog, cacheFile, writes, puts, putsAtStart, cacheHits>>

\* ------------------------------------------------------------ $fetchChannelsFundingTxs
\* the guard left out
AlreadyRunning_Never(flag) == FALSE

\* if (this.running) return
AlreadyRunning(flag) == flag

\* The head of the for loop and what follows it when the array is exhausted:
\* the next $fetchChannelOpenTx up to its first await (line 91), or lines
\* 113-120, the final flush and the call of $monitorLightningWallet up to its
\* first await.  processed: items done; log: flushLog so far; newly: the counter.
LoopOrFinish(b, ids, processed, log, newly) ==
  IF processed < Len(ids)
  THEN /\ EnterResolve(b, ids[processed + 1])
       /\ flushLog' = log
       /\ writes' = writes \cup {k \in 1..Len(log) : k > Len(flushLog)}
       /\ UNCHANGED <<mon, cacheFile>>
  ELSE /\ flushLog' = IF FinalFlushDue(newly)
                      THEN Flush(log, b, "final", fundingTxCache)
                      ELSE log
       /\ writes' = writes \cup {k \in 1..Len(flushLog') : k > Len(flushLog)}
       /\ pc' = [pc EXCEPT ![b] = "getAddressTxs"]
       /\ mon' = [mon EXCEPT ![b] = NewMon]
       /\ channelId' = [channelId EXCEPT ![b] = ""]
       /\ result' = [result EXCEPT ![b] = NoResult]
       /\ UNCHANGED <<block, blocksCache, cacheHits, cacheFile>>

\* The channel ids the calls made so far were given.
RECURSIVE SumLen(_, _)
SumLen(f, S) ==
  IF S = {} THEN 0
  ELSE LET x == CHOOSE y \in S : TRUE IN Len(f[x]) + SumLen(f, S \ {x})
HandedOver == SumLen(channelIds, Batches)

\* Lines 78-91: the call.  The callers are interchangeable, so b1 calls first.
FetchChannelsFundingTxs(b, ids) ==
  /\ pc[b] = "idle"
  /\ Len(ids) + HandedOver <= MaxBatchLen
  /\ b = "b2" => pc["b1"] # "idle"
  /\ IF AlreadyRunning(running)
     THEN /\ pc' = [pc EXCEPT ![b] = "returned"]
          /\ UNCHANGED <<running, blocksCache, channelNewlyProcessed, fundingTxCache,
                         channelIds, channelProcessed, cacheTimer, channelId, block,
                         result, mon, flushLog, cacheFile, writes, putsAtStart,
                         cacheHits>>
     ELSE /\ running' = TRUE
          /\ channelIds' = [channelIds EXCEPT ![b] = ids]
          /\ cacheTimer' = [cacheTimer EXCEPT ![b] = now]
          /\ channelProcessed' = [channelProcessed EXCEPT ![b] = 0]
          /\ channelNewlyProcessed' = 0
          /\ putsAtStart' = [putsAtStart EXCEPT ![b] = Len(puts)]
          /\ LoopOrFinish(b, ids, 0, flushLog, 0)
          /\ UNCHANGED fundingTxCache
  /\ UNCHANGED <<walletMempoolTxs, now, puts>>

\* Lines 92-111 after $fetchChannelOpenTx has returned, then the loop head.
AfterResolve(b) ==
  /\ pc[b] = "resolved"
  /\ LET processed == channelProcessed[b] + 1
         due == CheckpointDue(now - cacheTimer[b])
         log == IF due THEN Flush(flushLog, b, "checkpoint", fundingTxCache)
                ELSE flushLog
     IN /\ channelProcessed' = [channelProcessed EXCEPT ![b] = processed]
        /\ cacheTimer' = [cacheTimer EXCEPT ![b] = IF due THEN now ELSE @]
        /\ LoopOrFinish(b, channelIds[b], processed, log, channelNewlyProcessed)
  /\ UNCHANGED <<running, channelNewlyProcessed, fundingTxCache, walletMempoolTxs,
                 now, channelIds, puts, putsAtStart>>

\* Line 122, once $monitorLightningWallet has returned.
BatchReturns(b) ==
  /\ pc[b] = "monitored"
  /\ running' = FALSE
  /\ pc' = [pc EXCEPT ![b] = "returned"]
  /\ mon' = [mon EXCEPT ![b] = NoMon]
  /\ UNCHANGED <<blocksCache, channelNewlyProcessed, fundingTxCache, walletMempoolTxs,
                 now, channelIds, channelProcessed, cacheTimer, channelId, block,
                 result, flushLog, cacheFile, writes, puts, putsAtStart, cacheHits>>

\* ------------------------------------------------------------ $init
\* JSON.stringify of the cache: its values are numbers, strings and arrays and
\* objects of these, which JSON.parse gives back as they were
JSONStringify(fc) == [kind |-> "json", content |-> fc]

\* JSON.parse throws on anything but a serialised cache
JSONParseThrows(file) == file.kind # "json"

\* the catch of line 28 leaving the cache as it is
LoadedCache_KeptOnFailure(file, fc) ==
  IF JSONParseThrows(file) THEN fc ELSE file.content

\* lines 26-31: the parsed content of the file, {} when parsing throws
LoadedCache(file, fc) ==
  IF JSONParseThrows(file) THEN EmptyMap ELSE file.content

\* Line 36-43: $monitorLightningWallet is called, up to its first await.
StartMonitor(p) ==
  /\ pc' = [pc EXCEPT ![p] = "getAddressTxs"]
  /\ mon' = [mon EXCEPT ![p] = NewMon]

\* Lines 23-27: the call, up to the await of readFile, or of getAddressTxs when
\* the cache is not empty or there is no file.
CallInit(p) ==
  /\ pc[p] = "idle"
  /\ IF DOMAIN fundingTxCache = {} /\ cacheFile # NoFile
     THEN /\ pc' = [pc EXCEPT ![p] = "readFile"]
          /\ UNCHANGED mon
     ELSE StartMonitor(p)
  /\ UNCHANGED <<running, blocksCache, channelNewlyProcessed, fundingTxCache,
                 walletMempoolTxs, now, channelIds, channelProcessed, cacheTimer,
                 channelId, block, result, flushLog, cacheFile, writes, puts,
                 putsAtStart, cacheHits>>

\* readFile answered (lines 27-43): the content is parsed and assigned.
ReadFileReturns(p) ==
  /\ pc[p] = "readFile"
  /\ fundingTxCache' = LoadedCache(cacheFile, fundingTxCache)
  /\ StartMonitor(p)
  /\ UNCHANGED <<running, blocksCache, channelNewlyProcessed, walletMempoolTxs,
                 now, channelIds, channelProcessed, cacheTimer, channelId, block,
                 result, flushLog, cacheFile, writes, puts, putsAtStart, cacheHits>>

\* readFile fails (lines 28-43): the catch empties the cache.
ReadFileThrows(p) ==
  /\ pc[p] = "readFile"
  /\ fundingTxCache' = LoadedCache(CorruptFile, fundingTxCache)
  /\ StartMonitor(p)
  /\ UNCHANGED <<running, blocksCache, channelNewlyProcessed, walletMempoolTxs,
                 now, channelIds, channelProcessed, cacheTimer, channelId, block,
                 result, flushLog, cacheFile, writes, puts, putsAtStart, cacheHits>>

\* Line 38, once $monitorLightningWallet has returned.
InitReturns(p) ==
  /\ pc[p] = "monitored"
  /\ pc' = [pc EXCEPT ![p] = "returned"]
  /\ mon' = [mon EXCEPT ![p] = NoMon]
  /\ UNCHANGED <<running, blocksCache, channelNewlyProcessed, fundingTxCache,
                 walletMempoolTxs, now, channelIds, channelProcessed, cacheTimer,
                 channelId, block, result, flushLog, cacheFile, writes, puts,
                 putsAtStart, cacheHits>>

\* ------------------------------------------------------------ the file system
\* What CACHE_FILE_NAME holds once the write k has settled.  A write that is
\* alone leaves its content.  fsPromises.writeFile gives no guarantee for
\* calls on one file that overlap: each truncates the file and writes from its
\* start, so the file holds the content of the one that wrote last, or a mix
\* of both that does not parse.
WrittenFiles(k) ==
  IF \E j \in writes \ {k} : flushLog[j].content # flushLog[k].content
  THEN {JSONStringify(flushLog[k].content), CorruptFile}
  ELSE {JSONStringify(flushLog[k].content)}

\* The promise of a writeFile call (lines 108, 116) settles; nothing awaits it,
\* and the calls in flight settle in any order.
WriteFileCompletes(k) ==
  /\ k \in writes
  /\ writes' = writes \ {k}
  /\ cacheFile' \in WrittenFiles(k)
  /\ UNCHANGED <<running, blocksCache, channelNewlyProcessed, fundingTxCache,
                 walletMempoolTxs, now, pc, channelIds, channelProcessed, cacheTimer,
                 channelId, block, result, mon, flushLog, puts, putsAtStart,
                 cacheHits>>

\* ------------------------------------------------------------ the clock
\* The wall clock moves by exactly 60 s, or by the least amount that Math.round
\* takes to 61 s.  The clock is read at lines 84-86 and 94-109 only, so it is
\* moved where a batch is about to read it at line 94.
TickSteps ==
  {CACHE_FLUSH_SECONDS * TicksPerSecond,
   ((2 * CACHE_FLUSH_SECONDS + 1) * TicksPerSecond + 1) \div 2}
MaxNow == (CACHE_FLUSH_SECONDS + 1) * TicksPerSecond

Tick(d) ==
  /\ \E b \in Batches : pc[b] = "resolved"
  /\ now + d <= MaxNow
  /\ now' = now + d
  /\ UNCHANGED <<running, blocksCache, channelNewlyProcessed, fundingTxCache,
                 walletMempoolTxs, pc, channelIds, channelProcessed, cacheTimer,
                 channelId, block, result, mon, flushLog, cacheFile, writes, puts, putsAtStart, cacheHits>>

\* ------------------------------------------------------------ specification
Next ==
  \/ \E b \in Batches, ids \in BatchInputs : FetchChannelsFundingTxs(b, ids)
  \/ \E b \in Batches : AfterResolve(b)
  \/ \E b \in Batches : BatchReturns(b)
  \/ \E p \in OnDemand, id \in ChannelIds : FetchChannelOpenTx(p, id)
  \/ \E p \in Procs : GetBlockHashReturns(p)
  \/ \E p \in Procs : GetBlockReturns(p)
  \/ \E p \in Procs : GetRawTransactionReturns(p)
  \/ \E p \in Procs : DecodeRawTransactionReturns(p)
  \/ \E p \in Procs : ResolveRpcThrows(p)
  \/ \E b \in Batches : GetAddressTxsReturns(b)
  \/ \E b \in Batches : GetRawMempoolReturns(b)
  \/ \E b \in Batches : MonitorGetRawTransactionReturns(b)
  \/ \E b \in Batches : MonitorDecodeReturns(b)
  \/ \E b \in Batches : MonitorRpcThrows(b)
  \/ \E d \in TickSteps : Tick(d)

Spec == Init /\ [][Next]_vars

\* The same program after earlier resolutions have filled the block cache to
\* one entry below its capacity, with the blocks 101..199 (resolutions that end
\* at line 157 leave their block cached and nothing else).
WarmBlocksCache(n) == [h \in (200 - n)..199 |-> ChainBlock(h)]

InitWarm ==
  /\ running = FALSE
  /\ blocksCache = WarmBlocksCache(BLOCKS_CACHE_MAX_SIZE - 1)
  /\ channelNewlyProcessed = 0
  /\ fundingTxCache = EmptyMap
  /\ walletMempoolTxs = <<>>
  /\ now = 0
  /\ pc = [p \in Calls |-> "idle"]
  /\ channelIds = [b \in Batches |-> <<>>]
  /\ channelProcessed = [b \in Batches |-> 0]
  /\ cacheTimer = [b \in Batches |-> 0]
  /\ channelId = [p \in Procs |-> ""]
  /\ block = [p \in Procs |-> NoBlock]
  /\ result = [p \in Procs |-> NoResult]
  /\ mon = [b \in Monitors |-> NoMon]
  /\ flushLog = <<>>
  /\ cacheFile = NoFile
  /\ writes = {}
  /\ puts = <<>>
  /\ putsAtStart = [b \in Batches |-> 0]
  /\ cacheHits = [b \in Batches |-> 0]

SpecWarm == InitWarm /\ [][Next]_vars

\* One caller of $fetchChannelsFundingTxs and the on-demand caller, over every
\* channel id of the chain: transactions that are not the first of their
\* block, that do not decode, outputs without a value.
NextResolve ==
  \/ \E ids \in AllBatchInputs : FetchChannelsFundingTxs("b1", ids)
  \/ AfterResolve("b1")
  \/ BatchReturns("b1")
  \/ \E id \in AllChannelIds : FetchChannelOpenTx("od", id)
  \/ \E p \in {"b1", "od"} : GetBlockHashReturns(p)
  \/ \E p \in {"b1", "od"} : GetBlockReturns(p)
  \/ \E p \in {"b1", "od"} : GetRawTransactionReturns(p)
  \/ \E p \in {"b1", "od"} : DecodeRawTransactionReturns(p)
  \/ \E p \in {"b1", "od"} : ResolveRpcThrows(p)
  \/ GetAddressTxsReturns("b1")
  \/ GetRawMempoolReturns("b1")
  \/ MonitorGetRawTransactionReturns("b1")
  \/ MonitorDecodeReturns("b1")
  \/ MonitorRpcThrows("b1")

SpecResolve == Init /\ [][NextResolve]_vars

\* The wallet monitor alone: calls of $fetchChannelsFundingTxs with no channel
\* id, over more histories and mempool listings.
NextMonitor ==
  \/ \E b \in Batches : FetchChannelsFundingTxs(b, <<>>)
  \/ \E b \in Batches : BatchReturns(b)
  \/ \E b \in Batches, confirmedTxs \in WalletHistories :
       GetAddressTxsAnswers(b, confirmedTxs)
  \/ \E b \in Batches, mempoolEntries \in WalletListings :
       GetRawMempoolAnswers(b, mempoolEntries)
  \/ \E b \in Batches : MonitorGetRawTransactionReturns(b)
  \/ \E b \in Batches : MonitorDecodeReturns(b)
  \/ \E b \in Batches : MonitorRpcThrows(b)

SpecMonitor == Init /\ [][NextMonitor]_vars

\* The batches with the file system: the writes issued settle.
NextDisk ==
  \/ Next
  \/ \E k \in writes : WriteFileCompletes(k)

SpecDisk == Init /\ [][NextDisk]_vars

\* The files a start may find: none, one an earlier run flushed, a damaged one.
PersistedFiles ==
  {NoFile, CorruptFile,
   JSONStringify(
     [k \in {"1x0x0", MY_LIGHTNING_WALLET_ADDRESS} |->
        IF k = "1x0x0" THEN [timestamp |-> 1001, txid |-> <<1, 0>>, value |-> 51]
        ELSE <<"k1">>])}

InitStartup ==
  /\ running = FALSE
  /\ blocksCache = [h \in {} |-> NoBlock]
  /\ channelNewlyProcessed = 0
  /\ fundingTxCache = EmptyMap
  /\ walletMempoolTxs = <<>>
  /\ now = 0
  /\ pc = [p \in Calls |-> "idle"]
  /\ channelIds = [b \in Batches |-> <<>>]
  /\ channelProcessed = [b \in Batches |-> 0]
  /\ cacheTimer = [b \in Batches |-> 0]
  /\ channelId = [p \in Procs |-> ""]
  /\ block = [p \in Procs |-> NoBlock]
  /\ result = [p \in Procs |-> NoResult]
  /\ mon = [b \in Monitors |-> NoMon]
  /\ flushLog = <<>>
  /\ cacheFile \in PersistedFiles
  /\ writes = {}
  /\ puts = <<>>
  /\ putsAtStart = [b \in Batches |-> 0]
  /\ cacheHits = [b \in Batches |-> 0]

\* The start of the process: $init and one caller of $fetchChannelsFundingTxs,
\* neither waiting for the other, with a file on disk.
NextStartup ==
  \/ CallInit("init")
  \/ ReadFileReturns("init")
  \/ ReadFileThrows("init")
  \/ InitReturns("init")
  \/ \E ids \in BatchInputs : FetchChannelsFundingTxs("b1", ids)
  \/ AfterResolve("b1")
  \/ BatchReturns("b1")
  \/ GetBlockHashReturns("b1")
  \/ GetBlockReturns("b1")
  \/ GetRawTransactionReturns("b1")
  \/ DecodeRawTransactionReturns("b1")
  \/ ResolveRpcThrows("b1")
  \/ \E p \in {"init", "b1"} : GetAddressTxsReturns(p)
  \/ \E p \in {"init", "b1"} : GetRawMempoolReturns(p)
  \/ \E p \in {"init", "b1"} : MonitorGetRawTransactionReturns(p)
  \/ \E p \in {"init", "b1"} : MonitorDecodeReturns(p)
  \/ \E p \in {"init", "b1"} : MonitorRpcThrows(p)
  \/ \E k \in writes : WriteFileCompletes(k)

SpecStartup == InitStartup /\ [][NextStartup]_vars

\* ------------------------------------------------------------ properties
\* b is past the guard of line 79 and has neither returned nor been rejected
InBody(b) == pc[b] \in ResolveAwaits \cup MonitorAwaits \cup {"resolved", "monitored"}

\* b has left its loop and taken the decision of line 113
PastLoop(b) == pc[b] \in MonitorAwaits \cup {"monitored"}

\* C1: at any moment at most one call of $fetchChannelsFundingTxs is past the
\* running guard and executing the batch body (loop, final flush, refresh).
C1_SingleFlight == Cardinality({b \in Batches : InBody(b)}) <= 1

\* a second call was made while the first was in its body
C1_Witness == InBody("b1") /\ pc["b2"] = "returned"

\* C2: the guard is released on every exit path: once no call is in the batch
\* body any more, whether it returned or was rejected by a failing RPC call,
\* running is false again.
C2_GuardReleased == (\A b \in Batches : ~InBody(b)) => ~running

\* C3: an RPC failure while resolving one channel id costs that item only: no
\* call of $fetchChannelsFundingTxs ends before every id it was given has been
\* processed.
C3_ItemFailureIsLocal ==
  \A b \in Batches :
    pc[b] \in {"returned", "thrown"} => channelProcessed[b] = Len(channelIds[b])

\* C4: a call made while a batch is running returns at once: it changes none
\* of fundingTxCache, blocksCache, the counter, the wallet snapshot and the
\* flag, issues no RPC call (no call moves to an await) and no flush.
C4_RejectedCallIsNoOp ==
  [][\A b \in Batches :
       (pc[b] = "idle" /\ running /\ pc'[b] # "idle")
       => /\ pc'[b] = "returned"
          /\ \A p \in Procs \ {b} : pc'[p] = pc[p]
          /\ UNCHANGED <<fundingTxCache, blocksCache, channelNewlyProcessed,
                         walletMempoolTxs, running, flushLog, puts>>]_vars

\* a call was turned away while the running batch was waiting for an RPC
\* answer with a record already resolved
C4_Witness ==
  /\ pc["b2"] = "returned"
  /\ pc["b1"] \in ResolveAwaits
  /\ channelProcessed["b1"] > 0
  /\ puts # <<>>

\* The step enters $fetchChannelOpenTx(id) in call p: the on-demand call, the
\* first item of a batch, or its next item.
EntersResolve(p, id) ==
  \/ /\ p \in OnDemand
     /\ pc[p] = "idle" /\ pc'[p] # "idle"
     /\ id = channelId'[p]
  \/ /\ p \in Batches
     /\ pc[p] = "idle" /\ pc'[p] \notin {"idle", "returned"}
     /\ channelIds'[p] # <<>>
     /\ id = channelIds'[p][1]
  \/ /\ p \in Batches
     /\ pc[p] = "resolved"
     /\ channelProcessed'[p] = channelProcessed[p] + 1
     /\ channelProcessed'[p] < Len(channelIds[p])
     /\ id = channelIds[p][channelProcessed'[p] + 1]

\* C5: resolving a channel id that has a record in fundingTxCache returns that
\* record without an RPC call (the call is at no await afterwards) and changes
\* neither cache; the counter is left alone (line 88 resets it when the call
\* is the first of a batch).
C5_CacheHitShortCircuits ==
  [][\A p \in Procs : \A id \in ChannelIds :
       (EntersResolve(p, id) /\ id \in DOMAIN fundingTxCache)
       => /\ result'[p] = fundingTxCache[id]
          /\ pc'[p] \notin ResolveAwaits
          /\ fundingTxCache' = fundingTxCache
          /\ blocksCache' = blocksCache
          /\ puts' = puts
          /\ channelNewlyProcessed' =
               IF pc[p] = "idle" /\ p \in Batches THEN 0 ELSE channelNewlyProcessed]_vars

\* the on-demand call returned a record it did not insert itself
C5_Witness ==
  /\ pc["od"] = "returned"
  /\ result["od"] \notin {NoResult, Null}
  /\ \A k \in 1..Len(puts) : puts[k].by # "od"

\* C6: blocksCache never holds more than 100 entries at an await point, that
\* is, once a put and the eviction that follows it have run.
C6_BlockCacheBounded == Cardinality(DOMAIN blocksCache) <= BLOCKS_CACHE_MAX_SIZE

\* a put has overflowed the cache and the eviction has cut it back
C6_Witness ==
  Cardinality(DOMAIN blocksCache) = BLOCKS_CACHE_MAX_SIZE + 1 - EVICTION_BATCH

\* the heights the step stores a fetched block under (line 142 after line 140)
PutHeights ==
  {SplitChannelId(channelId[p])[1] :
     p \in {q \in Procs : pc[q] = "getBlock" /\ pc'[q] = "getRawTransaction"}}

\* the n numerically lowest members of S
Lowest(S, n) == {x \in S : Cardinality({y \in S : y < x}) < n}

\* C7: a put that brings blocksCache above 100 entries is followed by the
\* removal of exactly the 10 lowest heights then present (the new one
\* included); with 100 entries or fewer nothing is removed; the entries that
\* stay are unchanged, and no other step touches the cache.
C7_EvictsTenLowest ==
  [][IF PutHeights = {}
     THEN blocksCache' = blocksCache
     ELSE LET present == DOMAIN blocksCache \cup PutHeights
          IN /\ DOMAIN blocksCache' =
                  IF Cardinality(present) > BLOCKS_CACHE_MAX_SIZE
                  THEN present \ Lowest(present, EVICTION_BATCH)
                  ELSE present
             /\ \A h \in DOMAIN blocksCache' \cap DOMAIN blocksCache :
                  blocksCache'[h] = blocksCache[h]
             /\ \A h \in DOMAIN blocksCache' \ DOMAIN blocksCache :
                  blocksCache'[h] = ChainBlock(h)]_vars

\* the eviction has removed block 1 and the blocks 101..109 and kept the rest
C7_Witness ==
  /\ 1 \notin DOMAIN blocksCache
  /\ 109 \notin DOMAIN blocksCache
  /\ 110 \in DOMAIN blocksCache
  /\ 200 \in DOMAIN blocksCache

\* the flushes of a kind that call b has issued
FlushesBy(log, b, kind) ==
  {k \in 1..Len(log) : log[k].by = b /\ log[k].kind = kind}

\* the records call p has inserted
PutsBy(p) == {k \in 1..Len(puts) : puts[k].by = p}

\* C8 as stated: once a batch has left its loop, it has issued a final flush
\* if and only if it resolved at least one new record itself.
C8_FinalFlushIffOwnRecord ==
  \A b \in Batches :
    PastLoop(b) => (FlushesBy(flushLog, b, "final") # {} <=> PutsBy(b) # {})

\* the step in which batch b leaves its loop and takes the decision of line 113
LeavesLoop(b) == pc[b] \in {"idle", "resolved"} /\ pc'[b] = "getAddressTxs"

\* C8 amended: leaving its loop, a batch issues one final flush if at least
\* one record was inserted into fundingTxCache since the batch began, by its
\* own resolutions or by an on-demand resolve, and none otherwise; so it
\* always issues it when it resolved a new record itself.
C8_FinalFlushIffInsertedSinceStart ==
  [][\A b \in Batches :
       LeavesLoop(b)
       => /\ Cardinality(FlushesBy(flushLog', b, "final")) =
               IF Len(puts) > putsAtStart'[b] THEN 1 ELSE 0
          /\ \A k \in FlushesBy(flushLog', b, "final") :
               flushLog'[k].content = fundingTxCache
          /\ PutsBy(b) # {} => FlushesBy(flushLog', b, "final") # {}]_vars

\* a batch that resolved nothing itself issued a final flush
C8_Witness ==
  \E b \in Batches :
    PastLoop(b) /\ PutsBy(b) = {} /\ FlushesBy(flushLog, b, "final") # {}

\* every id the batch was given was answered from fundingTxCache
AllHits(b) == channelIds[b] # <<>> /\ cacheHits[b] = Len(channelIds[b])

\* C9 as stated: a batch whose ids are all cache hits issues no flush at all,
\* neither a checkpoint nor a final one.
C9_AllHitsNeverFlush ==
  \A b \in Batches :
    (PastLoop(b) /\ AllHits(b)) => \A k \in 1..Len(flushLog) : flushLog[k].by # b

\* the step in which batch b runs lines 92-110 for the item that has returned
EndsItem(b) == pc[b] = "resolved" /\ channelProcessed'[b] = channelProcessed[b] + 1

\* the flushes the step adds to the log
NewFlushes == {k \in 1..Len(flushLog') : k > Len(flushLog)}

\* C9 amended: while every id so far was a cache hit, a batch issues a final
\* flush only if an on-demand resolve has inserted a record since the batch
\* began, and a checkpoint flush only at the end of an item where the time
\* since the batch began or since the last checkpoint rounds to more than
\* 60 s; otherwise it issues none.
C9_AllHitsFlushOnlyWhenDue ==
  [][\A b \in Batches :
       (EndsItem(b) /\ cacheHits[b] = channelProcessed'[b])
       => \A k \in NewFlushes :
            /\ flushLog'[k].kind = "final"
               => \E j \in 1..Len(puts) : j > putsAtStart[b] /\ puts[j].by \in OnDemand
            /\ flushLog'[k].kind = "checkpoint"
               => 2 * (now - cacheTimer[b]) >=
                    (2 * CACHE_FLUSH_SECONDS + 1) * TicksPerSecond]_vars

\* an all-hit batch left its loop without a single flush
C9_Witness ==
  \E b \in Batches :
    /\ PastLoop(b) /\ AllHits(b)
    /\ \A k \in 1..Len(flushLog) : flushLog[k].by # b

\* C10 as stated: at the end of an item, once 60 s have passed since the batch
\* began or since the last checkpoint, a checkpoint flush is issued.
C10_CheckpointEvery60s ==
  [][\A b \in Batches :
       (EndsItem(b) /\ now - cacheTimer[b] >= CACHE_FLUSH_SECONDS * TicksPerSecond)
       => FlushesBy(flushLog', b, "checkpoint") # FlushesBy(flushLog, b, "checkpoint")]_vars

\* C10 amended: at the end of an item a checkpoint flush of the whole
\* fundingTxCache is issued, and the timer restarted, exactly when the time
\* since the batch began or since the last checkpoint, rounded to the nearest
\* second, exceeds 60 (from 60.5 s on), whether or not entries were added.
C10_CheckpointWhenRoundedOver60 ==
  [][\A b \in Batches :
       EndsItem(b)
       => LET due == 2 * (now - cacheTimer[b]) >=
                       (2 * CACHE_FLUSH_SECONDS + 1) * TicksPerSecond
              new == FlushesBy(flushLog', b, "checkpoint") \
                     FlushesBy(flushLog, b, "checkpoint")
          IN /\ Cardinality(new) = IF due THEN 1 ELSE 0
             /\ \A k \in new : flushLog'[k].content = fundingTxCache
             /\ cacheTimer'[b] = IF due THEN now ELSE cacheTimer[b]]_vars

\* a checkpoint was flushed in a batch during which nothing was inserted
C10_Witness ==
  \E k \in 1..Len(flushLog) :
    /\ flushLog[k].kind = "checkpoint"
    /\ Len(puts) = putsAtStart[flushLog[k].by]

\* the step in which decodeRawTransaction answers call p (line 153)
DecodeAnswered(p) == pc[p] = "decodeRawTransaction" /\ pc'[p] = ReturnPc(p)

\* what the chain holds for channel id HxTxO: the block at height H, its T-th
\* transaction id and what that transaction decodes to
FundingBlock(id) == ChainBlock(SplitChannelId(id)[1])
FundingTxid(id) == FundingBlock(id).tx[SplitChannelId(id)[2] + 1]
FundingTx(id) == ChainTx(FundingTxid(id))

\* the T-th transaction of block H decodes and its output O has a value
HasFundingOutput(id) ==
  /\ FundingTx(id) # NoTx
  /\ SplitChannelId(id)[3] + 1 <= Len(FundingTx(id).vout)
  /\ FundingTx(id).vout[SplitChannelId(id)[3] + 1].value # Undefined

\* C11: resolving a channel id HxTxO whose transaction tT of block H decodes
\* with a defined value V at output O returns {timestamp: block.time, txid: tT,
\* value: V}, stores exactly that record under the channel id (no other key
\* changes) and adds one to channelNewlyProcessed.
C11_ResolveStoresRecord ==
  [][\A p \in Procs :
       (DecodeAnswered(p) /\ HasFundingOutput(channelId[p]))
       => LET id == channelId[p]
              expected ==
                [timestamp |-> FundingBlock(id).time,
                 txid |-> FundingTxid(id),
                 value |-> FundingTx(id).vout[SplitChannelId(id)[3] + 1].value]
          IN /\ result'[p] = expected
             /\ DOMAIN fundingTxCache' = DOMAIN fundingTxCache \cup {id}
             /\ fundingTxCache'[id] = expected
             /\ \A k \in DOMAIN fundingTxCache \ {id} :
                  fundingTxCache'[k] = fundingTxCache[k]
             /\ channelNewlyProcessed' = channelNewlyProcessed + 1]_vars

\* the on-demand call resolved the first output of the second transaction of
\* block 1
C11_Witness ==
  /\ pc["od"] = "returned"
  /\ channelId["od"] = "1x1x0"
  /\ result["od"] = [timestamp |-> 1001, txid |-> <<1, 1>>, value |-> 52]
  /\ "1x1x0" \in DOMAIN fundingTxCache
  /\ channelNewlyProcessed = 1

\* C12: resolving a channel id whose output index is not below the number of
\* outputs of the decoded transaction, whose output has no value, or whose
\* transaction decodes to nothing returns null, inserts nothing into
\* fundingTxCache and leaves channelNewlyProcessed alone; a batch that got
\* null goes on with its next id (or leaves the loop after the last one).
C12_NullOnMissingOutput ==
  [][/\ \A p \in Procs :
          (DecodeAnswered(p) /\ ~HasFundingOutput(channelId[p]))
          => /\ result'[p] = Null
             /\ fundingTxCache' = fundingTxCache
             /\ puts' = puts
             /\ channelNewlyProcessed' = channelNewlyProcessed
     /\ \A b \in Batches :
          (pc[b] = "resolved" /\ result[b] = Null /\ pc'[b] # pc[b])
          => /\ channelProcessed'[b] = channelProcessed[b] + 1
             /\ IF channelProcessed'[b] < Len(channelIds[b])
                THEN /\ channelId'[b] = channelIds[b][channelProcessed'[b] + 1]
                     /\ pc'[b] \in ResolveAwaits \cup {"resolved"}
                ELSE pc'[b] = "getAddressTxs"]_vars

\* a batch went through an output without a value and a transaction that does
\* not decode, the on-demand call got null for an output index past the end,
\* and nothing was inserted
C12_Witness ==
  /\ PastLoop("b1")
  /\ channelIds["b1"] = <<"1x1x1", "200x1x0">>
  /\ channelProcessed["b1"] = 2
  /\ pc["od"] = "returned" /\ channelId["od"] = "1x0x1" /\ result["od"] = Null
  /\ puts = <<>>
  /\ channelNewlyProcessed = 0

\* C13: when an RPC call of a refresh fails, the call of
\* $monitorLightningWallet returns to its caller all the same (nothing is
\* thrown), and walletMempoolTxs and the entry under the address key are what
\* they were when the refresh began, never the list built so far.
C13_FailedRefreshChangesNothing ==
  \A p \in Monitors :
    mon[p].outcome = "failed"
    => /\ pc[p] = "monitored"
       /\ walletMempoolTxs = mon[p].before[1]
       /\ ReservedEntry(fundingTxCache) = mon[p].before[2]

\* a refresh failed after an earlier one had stored a snapshot of two entries
\* and a history, which are still there
C13_Witness ==
  /\ mon["b2"].outcome = "failed"
  /\ Len(walletMempoolTxs) = 2
  /\ ReservedEntry(fundingTxCache) = << <<"k2", "k1">> >>

\* the mempool transaction has an output that pays the watched address
PaysWallet(txid) ==
  \E k \in DOMAIN MempoolDecoded(txid).vout :
    MY_LIGHTNING_WALLET_ADDRESS \in MempoolDecoded(txid).vout[k].addresses

\* the sum of the values of the outputs with index in K
RECURSIVE SumOfOutputs(_, _)
SumOfOutputs(vout, K) ==
  IF K = {} THEN 0
  ELSE LET k == CHOOSE x \in K : TRUE
       IN vout[k].value + SumOfOutputs(vout, K \ {k})

\* what the outputs of the mempool transaction pay the watched address
PaidToWallet(txid) ==
  LET vout == MempoolDecoded(txid).vout
  IN SumOfOutputs(vout, {k \in DOMAIN vout :
                           MY_LIGHTNING_WALLET_ADDRESS \in vout[k].addresses})

\* C14: after a successful refresh walletMempoolTxs holds, in listing order,
\* one entry for each listed transaction with an output paying the watched
\* address and none for the others, its amount the sum of the values of those
\* outputs; nothing of the previous snapshot is kept.
C14_SnapshotIsTheScan ==
  \A p \in Monitors :
    mon[p].outcome = "done"
    => LET paying == SelectSeq(mon[p].mempoolEntries, PaysWallet)
       IN /\ Len(walletMempoolTxs) = Len(paying)
          /\ \A i \in 1..Len(paying) :
               /\ walletMempoolTxs[i].txid = paying[i]
               /\ walletMempoolTxs[i].amount = PaidToWallet(paying[i])

\* a refresh over the listing m1 replaced the snapshot of m3 and m1
C14_Witness ==
  /\ mon["b2"].outcome = "done"
  /\ Len(mon["b2"].before[1]) = 2
  /\ mon["b2"].before[1][1].txid = "m3"
  /\ walletMempoolTxs = << [txid |-> "m1", amount |-> 7, fee |-> 1, vsize |-> 140] >>

\* the step in which the await of readFile ends for call p (line 27)
LoadEnds(p) == pc[p] = "readFile" /\ pc'[p] # "readFile"

\* C15: when $init loads a file that does not parse, fundingTxCache is empty
\* afterwards, nothing is thrown, and $init goes on to call
\* $monitorLightningWallet.
C15_CorruptFileGivesEmptyCache ==
  [][\A p \in Inits :
       (LoadEnds(p) /\ cacheFile = CorruptFile)
       => /\ fundingTxCache' = EmptyMap
          /\ pc'[p] = "getAddressTxs"
          /\ mon'[p].outcome = "none"]_vars

\* $init found a damaged file and has gone on to the refresh with an empty
\* cache, although a batch had inserted a record while the file was read
C15_Witness ==
  /\ pc["init"] = "getAddressTxs"
  /\ cacheFile = CorruptFile
  /\ flushLog = <<>>
  /\ puts # <<>>
  /\ fundingTxCache = EmptyMap

\* C16: under every interleaving of a batch with on-demand calls of
\* $fetchChannelOpenTx, a channel id is put into fundingTxCache at most once
\* (and so counted at most once).
C16_PutAtMostOnce ==
  \A j, k \in 1..Len(puts) : j # k => puts[j].id # puts[k].id

\* C17: no refresh of the wallet monitor is in progress while a batch is in
\* its resolution loop, whatever the calls of $init and
\* $fetchChannelsFundingTxs.
C17_NoRefreshDuringLoop ==
  \A p \in Monitors : \A b \in Batches :
    ~(pc[p] \in MonitorAwaits /\ pc[b] \in ResolveAwaits \cup {"resolved"})

\* C18: resolving an uncached channel id at a height whose block is in
\* blocksCache goes straight to getRawTransaction with that block and leaves
\* blocksCache as it is; getBlockHash is called only when the block is missing
\* and getBlock only after getBlockHash; the block getBlock answers is stored
\* under its height, where it stays unless the eviction that follows the put
\* removes it as one of the 10 lowest of 101.
C18_BlockReuse ==
  [][\A p \in Procs :
       /\ \A id \in ChannelIds :
            (EntersResolve(p, id) /\ id \notin DOMAIN fundingTxCache)
            => LET H == SplitChannelId(id)[1]
               IN IF H \in DOMAIN blocksCache
                  THEN /\ pc'[p] = "getRawTransaction"
                       /\ block'[p] = blocksCache[H]
                       /\ blocksCache' = blocksCache
                  ELSE /\ pc'[p] = "getBlockHash"
                       /\ blocksCache' = blocksCache
       /\ (pc'[p] = "getBlockHash" /\ pc[p] # "getBlockHash")
            => /\ \E id \in ChannelIds : EntersResolve(p, id)
               /\ SplitChannelId(channelId'[p])[1] \notin DOMAIN blocksCache
       /\ (pc'[p] = "getBlock" /\ pc[p] # "getBlock") => pc[p] = "getBlockHash"
       /\ (pc[p] = "getBlock" /\ pc'[p] = "getRawTransaction")
            => LET H == SplitChannelId(channelId[p])[1]
                   present == DOMAIN blocksCache \cup {H}
               IN /\ block'[p] = ChainBlock(H)
                  /\ IF H \in DOMAIN blocksCache'
                     THEN blocksCache'[H] = ChainBlock(H)
                     ELSE /\ Cardinality(present) > BLOCKS_CACHE_MAX_SIZE
                          /\ H \in Lowest(present, EVICTION_BATCH)]_vars

\* a batch alone is resolving its second id of height 1 with the block its
\* first id fetched
C18_Witness ==
  /\ pc["b1"] = "getRawTransaction"
  /\ channelIds["b1"] = <<"1x0x0", "1x0x1">>
  /\ channelProcessed["b1"] = 1
  /\ pc["b2"] = "idle" /\ pc["od"] = "idle"
  /\ block["b1"] = blocksCache[1]

\* C19: when a batch that ran to completion is over, every record inserted
\* before it began or by the batch itself is in the content of some flush
\* issued so far.
C19_InsertedIsFlushed ==
  \A b \in Batches :
    pc[b] = "monitored"
    => \A k \in 1..Len(puts) :
         (k <= putsAtStart[b] \/ puts[k].by = b)
         => \E j \in 1..Len(flushLog) : puts[k].id \in DOMAIN flushLog[j].content

\* C20: once the writes a batch issued have all settled (the batch being out
\* of its loop and the only one to have flushed), the file holds the content
\* of the last flush the batch issued.
C20_LastFlushPersists ==
  \A b \in Batches :
    ( /\ pc[b] \notin ResolveAwaits \cup {"idle", "resolved"}
      /\ flushLog # <<>>
      /\ \A k \in 1..Len(flushLog) : flushLog[k].by = b
      /\ writes = {} )
    => cacheFile = JSONStringify(flushLog[Len(flushLog)].content)

====
